---- MODULE Spec2Model ----
(***************************************************************************)
(* Position monitor and bundled sell executor of PaperTrader               *)
(* (src/src/trader.py), with the part of the position store                *)
(* (src/src/database.py) they read and write.                              *)
(*                                                                         *)
(* Scaling.  Prices are integers with entry_price = 1000, so a multiple of *)
(* the entry price m is the price 1000 * m.  Factors of config.py are      *)
(* kept in tenths (TP1_FACTOR = 1.8 is 18), fractions of a position in     *)
(* hundredths (TP1_AMOUNT = 0.50 is 50).  Time is in seconds.              *)
(*                                                                         *)
(* Scheduling.  The program is one asyncio event loop: a coroutine runs    *)
(* until it awaits.  Every action below is one stretch of code between     *)
(* two awaits, or a part of such a stretch; `running` names the task that  *)
(* is in the middle of a stretch (0: the event loop is idle), and no other *)
(* task or callback runs until that task reaches its next await.           *)
(*                                                                         *)
(* Specifications.  Spec is one monitor task under everything its          *)
(* environment can do (every price of the ladder, failing balance lookups, *)
(* the operator, the wallet's owner, paper and live trading).  SpecRestart *)
(* lets the supervisor create every task of the model, under a price feed  *)
(* of two prices and lookups that do not fail.                             *)
(***************************************************************************)
EXTENDS Integers, Sequences, FiniteSets, TLC

\* ------------------------------------------------------------ bounds
MaxTasks == 3
MaxTime == 20
TickSeconds == 10
MaxLedger == 3
MaxCalls == 3
MaxFails == 2

\* ------------------------------------------------- program constants
HARD_STOP_LOSS == 70
TRAILING_STOP_PERCENT == 35
TP1_FACTOR == 18
TP1_AMOUNT == 50
TP1_SL == 14
TP2_FACTOR == 30
TP2_AMOUNT == 20
TP2_SL == 20
TP3_FACTOR == 50
TP3_AMOUNT == 15
TP3_SL == 30
SELL_COOLDOWN_SECONDS == 20
max_sell_attempts == 5
BREAK_EVEN_GAIN == 50
TRAIL_BELOW_HIGH == 65
VOLUME_DECAY_GAIN == 20
VOLUME_DECAY_AMOUNT == 25
VOLUME_PEAK_FLOOR == 50
EntryPrice == 1000
EntryTokens == 1000

\* The one token address of the model: a pump.fun mint, so that sell() tries
\* PumpPortal first and Jupiter second.
Addr == "a1pump"
PumpSuffix == {"a1pump"}
Prices == {650, 1500, 1900, 3000, 5000}
Volumes == {0, 120}
Tasks == 1..MaxTasks
NoTime == -1
NoAttr == {"<absent>"}

VARIABLES
    scn,              \* the scenario: what the environment of this run can do
    real_mode,        \* PaperTrader.real_mode
    held_over_6h,     \* the position was created more than 360 minutes ago
    now,              \* datetime.now(), seconds
    trade,            \* the row of table trades for Addr, or NoTrade
    sell_transactions,\* the rows of table sell_transactions for Addr, oldest first
    wallet,           \* tokens of Addr the wallet really holds
    active_monitors,  \* PaperTrader.active_monitors
    pending_sells,    \* PaperTrader.pending_sells
    sell_cooldowns,   \* PaperTrader.sell_cooldowns[Addr], or NoTime
    tp_lock,          \* attribute _tp_lock_<Addr>: NoAttr or a set of tier names
    task,             \* the monitor_position tasks, in the order they were created
    running,          \* the task in the middle of a synchronous stretch, or 0
    event,            \* what the last step did
    tier_fires,       \* history: per tier, how many poll cycles added it to a bundle
    prev_exec,        \* history: start and end of the last sell() that wrote a ledger record
    stop_loss_seen,   \* history: the highest stop_loss_price a monitor has held
    alerts_sent,      \* history: the highest multiple a monitor has sent an alert for
    peak_volume_seen, \* history: the highest 5-minute count a monitor was given
    highest_seen,     \* history: the highest highest_price a monitor has held
    attrs,            \* the per-address attributes set on the trader, but _tp_lock_
    pending_buys,     \* PaperTrader.pending_buys
    signal_registry,  \* PaperTrader.signal_registry[Addr].source, or NoSource
    trade_source,     \* column source of the row of table trades, or NoSource
    buy_call,         \* the calls of buy for Addr, in the order they were made
    price_attrs,      \* attributes _cached_data_ (its price), _last_valid_price_ and
                      \* _price_fail_count_ of Addr, where a price fetch can fail
    last_good_price   \* history: the price a source returned most recently

vars == <<scn, real_mode, held_over_6h, now, trade, sell_transactions, wallet,
          active_monitors, pending_sells, sell_cooldowns, tp_lock, task, running,
          event, tier_fires, prev_exec, stop_loss_seen, alerts_sent, peak_volume_seen, highest_seen,
                   attrs, pending_buys, signal_registry, trade_source, buy_call,
                   price_attrs, last_good_price>>

NoTrade == [status |-> "NONE"]
NoEvent == [kind |-> "none"]
NoSource == "-"
Sources == {"ears", "discord"}
Calls == 1..MaxCalls

\* No price attribute is set: getattr(self, name, 0).
NoPrices == [cached_data |-> 0, last_valid_price |-> 0, price_fail_count |-> 0]

\* A call of buy that has not been made yet.
IdleCall ==
    [pc |-> "idle", source |-> NoSource, is_boost |-> FALSE, swapped |-> FALSE,
     added |-> FALSE, monitor |-> FALSE]

\* Database.add_trade: meta = {"events": []}; the keys the monitor reads are
\* given the defaults of its meta.get calls.
Meta0 ==
    [tp_2x_hit |-> FALSE, tp3_hit |-> FALSE, tp4_hit |-> FALSE,
     break_even_locked |-> FALSE, volume_decay_triggered |-> FALSE,
     tp2_hit |-> FALSE, last_x_alert |-> 1, peak_volume |-> 0,
     boosted |-> FALSE, partial_exit_price |-> 0]

NoSell ==
    [percentage |-> 0, reason |-> <<>>, after |-> "-", now |-> NoTime,
     meta |-> Meta0, attempt |-> 0, tx_sig |-> "-", current_balance |-> 0,
     got_sig |-> FALSE, resubmitted |-> FALSE]

\* A task that start_monitor has not created yet.
IdleTask ==
    [pc |-> "idle", highest_price |-> 0, stop_loss_price |-> 0,
     status |-> "-", meta |-> Meta0, current_price |-> 0,
     total_sell_pct |-> 0, sell_reasons |-> <<>>, sell |-> NoSell,
     pre |-> NoTrade]

Max(a, b) == IF a >= b THEN a ELSE b
Min(a, b) == IF a <= b THEN a ELSE b

Live(t) == task[t].pc \notin {"idle", "done"}

\* Database.add_trade
add_trade == [status |-> "OPEN", meta |-> Meta0]

\* Database.update_trade: status always, meta when one is given.
update_trade(row, status, meta) == [row EXCEPT !.status = status, !.meta = meta]

\* Database.update_trade called without meta.
update_trade_status_only(row, status) == [row EXCEPT !.status = status]

\* Database.log_sell
log_sell(rows, percentage_sold, reason) ==
    Append(rows, [percentage_sold |-> percentage_sold, reason |-> reason])

\* Database.get_active_trades: status NOT LIKE 'CLOSED%'
get_active_trades == IF trade.status \notin {"NONE", "CLOSED"} THEN {Addr} ELSE {}

StepOf(t) == running \in {0, t}
Idle == running = 0

\* The state after PaperTrader.__init__, for a store that holds the position
\* already (a restart) or does not (the buy comes first).
InitProgram ==
    /\ now = 0
    /\ trade \in {NoTrade, add_trade}
    /\ sell_transactions = <<>>
    /\ wallet = IF trade = NoTrade THEN 0 ELSE EntryTokens
    /\ active_monitors = {}
    /\ pending_sells = {}
    /\ sell_cooldowns = NoTime
    /\ tp_lock = NoAttr
    /\ task = [t \in Tasks |-> IdleTask]
    /\ running = 0
    /\ event = NoEvent
    /\ tier_fires = [k \in {"2x", "3x", "5x"} |-> 0]
    /\ prev_exec = [start |-> NoTime, end |-> NoTime]
    /\ stop_loss_seen = 0
    /\ alerts_sent = Meta0.last_x_alert
    /\ peak_volume_seen = 0
    /\ highest_seen = 0
    /\ attrs = {}
    /\ pending_buys = {}
    /\ signal_registry = NoSource
    /\ trade_source = IF trade = NoTrade THEN NoSource ELSE "ears"
    /\ buy_call = [c \in Calls |-> IdleCall]
    /\ price_attrs = NoPrices
    /\ last_good_price = 0

\* One monitor task, and everything the environment can do.
Init ==
    /\ scn = [prices |-> Prices, volumes |-> Volumes, tasks |-> 1, faults |-> TRUE]
    /\ real_mode \in BOOLEAN
    /\ held_over_6h \in BOOLEAN
    /\ InitProgram

\* ------------------------------------------------------- environment

\* Time passes while the event loop waits.  The only reader of the clock is
\* the cooldown of sell, so the clock starts with the first sell.
Tick ==
    /\ Idle
    /\ sell_cooldowns # NoTime
    /\ now + TickSeconds <= MaxTime
    /\ now' = now + TickSeconds
    /\ event' = NoEvent
    /\ UNCHANGED <<scn, real_mode, held_over_6h, trade, sell_transactions, wallet,
                   active_monitors, pending_sells, sell_cooldowns, tp_lock, task,
                   running, tier_fires, prev_exec, stop_loss_seen,
                   alerts_sent, peak_volume_seen, highest_seen,
                   attrs, pending_buys, signal_registry, trade_source, buy_call,
                   price_attrs, last_good_price>>

\* The operator presses SELL on the dashboard: Database.update_trade_status.
OperatorSellRequest ==
    /\ Idle
    /\ trade.status \in {"OPEN", "PARTIAL"}
    /\ trade' = update_trade_status_only(trade, "SELL_REQUEST")
    /\ event' = NoEvent
    /\ UNCHANGED <<scn, real_mode, held_over_6h, now, sell_transactions, wallet,
                   active_monitors, pending_sells, sell_cooldowns, tp_lock, task,
                   running, tier_fires, prev_exec, stop_loss_seen,
                   alerts_sent, peak_volume_seen, highest_seen,
                   attrs, pending_buys, signal_registry, trade_source, buy_call,
                   price_attrs, last_good_price>>

\* The owner of the wallet sells the tokens outside the bot.
ExternalSell ==
    /\ Idle
    /\ real_mode
    /\ wallet > 0
    /\ wallet' = 0
    /\ event' = NoEvent
    /\ UNCHANGED <<scn, real_mode, held_over_6h, now, trade, sell_transactions,
                   active_monitors, pending_sells, sell_cooldowns, tp_lock, task,
                   running, tier_fires, prev_exec, stop_loss_seen,
                   alerts_sent, peak_volume_seen, highest_seen,
                   attrs, pending_buys, signal_registry, trade_source, buy_call,
                   price_attrs, last_good_price>>

\* -------------------------------------------------------- supervisor

FreeTask == CHOOSE t \in Tasks : task[t].pc = "idle" /\ \A u \in Tasks : u < t => task[u].pc # "idle"
HasFreeTask == \E t \in 1..scn.tasks : task[t].pc = "idle"

\* start_monitor if it did not record the address.
start_monitor_set_forgets(monitors, address) == monitors

\* PaperTrader.start_monitor: the set after the call.
start_monitor_set(monitors, address) == monitors \cup {address}

\* start_monitor without its test of active_monitors.
start_monitor_always_spawns(monitors, address) == TRUE

\* PaperTrader.start_monitor: whether the call spawns a task.
start_monitor_spawns(monitors, address) == address \notin monitors

\* asyncio.create_task(self.monitor_position(...)): the task exists, and has not run.
Spawn == task' = [task EXCEPT ![FreeTask] = [IdleTask EXCEPT !.pc = "new"]]

\* PaperTrader.start_monitor(Addr, ticker, entry_price), lines 1633-1636.
start_monitor ==
    /\ active_monitors' = start_monitor_set(active_monitors, Addr)
    /\ IF start_monitor_spawns(active_monitors, Addr) THEN Spawn ELSE UNCHANGED task

\* A call of start_monitor for the open position while the event loop is
\* free.  buy and resume_monitoring call it only for an address that is not
\* monitored; the method is public and is also called here for one that is.
\* The number of tasks ever created is bounded by scn.tasks.
CallStartMonitor ==
    /\ Idle
    /\ Addr \in get_active_trades
    /\ start_monitor_spawns(active_monitors, Addr) => HasFreeTask
    /\ start_monitor
    /\ event' = [kind |-> "start_monitor",
                 spawned |-> start_monitor_spawns(active_monitors, Addr)]
    /\ UNCHANGED <<scn, real_mode, held_over_6h, now, trade, sell_transactions, wallet,
                   pending_sells, sell_cooldowns, tp_lock,
                   running, tier_fires, prev_exec, stop_loss_seen,
                   alerts_sent, peak_volume_seen, highest_seen,
                   attrs, pending_buys, signal_registry, trade_source, buy_call,
                   price_attrs, last_good_price>>

\* PaperTrader.buy, its end: the record is added and start_monitor called.
Buy ==
    /\ Idle
    /\ trade = NoTrade
    /\ HasFreeTask
    /\ trade' = add_trade
    \* the signal of the token listener (line 151)
    /\ trade_source' = "ears"
    /\ wallet' = EntryTokens
    /\ start_monitor
    /\ event' = [kind |-> "start_monitor",
                 spawned |-> start_monitor_spawns(active_monitors, Addr)]
    /\ UNCHANGED <<scn, real_mode, held_over_6h, now, sell_transactions,
                   pending_sells, sell_cooldowns, tp_lock,
                   running, tier_fires, prev_exec, stop_loss_seen,
                   alerts_sent, peak_volume_seen, highest_seen,
                   attrs, pending_buys, signal_registry, buy_call,
                   price_attrs, last_good_price>>

\* PaperTrader.resume_monitoring, called by main() and by on_ready (at every
\* reconnect of the Discord client).  It has no await: one step.  A call that
\* finds no active trade does nothing and is left out; count is its counter
\* of monitors started, again tells a call that follows another one directly.
resume_monitoring ==
    /\ Idle
    /\ Addr \in get_active_trades
    /\ Addr \notin active_monitors => HasFreeTask
    /\ IF Addr \notin active_monitors
       THEN start_monitor
       ELSE UNCHANGED <<active_monitors, task>>
    /\ event' = [kind |-> "resume_monitoring",
                 count |-> IF Addr \notin active_monitors THEN 1 ELSE 0,
                 again |-> event.kind = "resume_monitoring"]
    /\ UNCHANGED <<scn, real_mode, held_over_6h, now, trade, sell_transactions, wallet,
                   pending_sells, sell_cooldowns, tp_lock,
                   running, tier_fires, prev_exec, stop_loss_seen,
                   alerts_sent, peak_volume_seen, highest_seen,
                   attrs, pending_buys, signal_registry, trade_source, buy_call,
                   price_attrs, last_good_price>>

\* -------------------------------------------------- monitor_position

\* What a step of a monitor leaves alone unless it says otherwise.
UNCHANGED_scn ==
    UNCHANGED <<scn, real_mode, held_over_6h, now,
                pending_buys, signal_registry, trade_source, buy_call,
                   price_attrs, last_good_price>>
UNCHANGED_env == UNCHANGED_scn /\ UNCHANGED attrs

SetTask(t, r) ==
    /\ task' = [task EXCEPT ![t] = r]
    /\ stop_loss_seen' = Max(stop_loss_seen, r.stop_loss_price)
    /\ alerts_sent' = Max(alerts_sent, r.meta.last_x_alert)
    /\ peak_volume_seen' = Max(peak_volume_seen, r.meta.peak_volume)
    /\ highest_seen' = Max(highest_seen, r.highest_price)

LookupOutcomes == IF scn.faults THEN BOOLEAN ELSE {TRUE}

\* SolanaEngine.get_token_balance: the balance, or 0.0 when the lookup raised.
get_token_balance(held, lookup_ok) == IF lookup_ok THEN held ELSE 0

\* monitor_position, lines 198-199: the stop before any ratchet.
initial_stop_loss(entry_price) == (entry_price * HARD_STOP_LOSS) \div 100

\* The first lines of monitor_position, up to the loop.
MonitorStart(t) ==
    /\ Idle
    /\ task[t].pc = "new"
    /\ SetTask(t, [task[t] EXCEPT !.pc = "loop_head",
                                  !.highest_price = EntryPrice,
                                  !.stop_loss_price = initial_stop_loss(EntryPrice)])
    /\ running' = t
    /\ event' = [kind |-> "monitor_start", task |-> t]
    /\ UNCHANGED_env
    /\ UNCHANGED <<trade, sell_transactions, wallet, active_monitors, pending_sells,
                   sell_cooldowns, tp_lock, tier_fires, prev_exec>>

\* The loop condition and the read of the trade (lines 204-217).  loop_count is
\* not kept: whether this is a cycle whose count is a multiple of 60 is an input.
LoopHead(t) ==
    /\ running = t
    /\ task[t].pc = "loop_head"
    /\ IF Addr \notin active_monitors \/ trade.status \in {"NONE", "CLOSED"}
       THEN /\ SetTask(t, [task[t] EXCEPT !.pc = "cleanup"])
            /\ running' = t
       ELSE /\ \E balance_check_due \in BOOLEAN :
                 SetTask(t, [task[t] EXCEPT
                     !.pc = IF balance_check_due /\ real_mode THEN "ext_check" ELSE "poll",
                     !.status = trade.status,
                     !.meta = trade.meta,
                     !.total_sell_pct = 0,
                     !.sell_reasons = <<>>,
                     !.sell = NoSell,
                     !.pre = NoTrade])
            /\ running' = 0
    \* lines 207-208, inside the loop
    /\ attrs' = IF Addr \notin active_monitors THEN attrs ELSE attrs \cup {"_loop_"}
    /\ event' = NoEvent
    /\ UNCHANGED_scn
    /\ UNCHANGED <<trade, sell_transactions, wallet, active_monitors, pending_sells,
                   sell_cooldowns, tp_lock, tier_fires, prev_exec>>

\* PaperTrader._cleanup_trade_attrs: the tier-lock attribute after it.
cleanup_trade_attrs(attr) == NoAttr

\* PaperTrader._cleanup_trade_attrs: attrs_to_clean, the tier lock apart.
attrs_to_clean == {"_loop_", "_cached_data_"}

\* The two lines after the loop (656-657); the task ends.
Cleanup(t) ==
    /\ running = t
    /\ task[t].pc = "cleanup"
    /\ tp_lock' = cleanup_trade_attrs(tp_lock)
    /\ active_monitors' = active_monitors \ {Addr}
    /\ SetTask(t, [IdleTask EXCEPT !.pc = "done"])
    /\ running' = 0
    /\ attrs' = attrs \ attrs_to_clean
    /\ event' = [kind |-> "monitor_end", task |-> t]
    /\ UNCHANGED_scn
    /\ UNCHANGED <<trade, sell_transactions, wallet, pending_sells,
                   sell_cooldowns, tier_fires, prev_exec>>

\* monitor_position with the external-sell detection blind.
external_sell_ignored(token_balance) == FALSE

\* Line 219: the wallet holds none of the token.
external_sell_detected(token_balance) == token_balance <= 0

\* External sell detection, the balance lookup (lines 217-219).
ExtCheck(t) ==
    /\ Idle
    /\ task[t].pc = "ext_check"
    /\ \E lookup_ok \in LookupOutcomes :
         SetTask(t, [task[t] EXCEPT
             !.pc = IF external_sell_detected(get_token_balance(wallet, lookup_ok))
                    THEN "ext_price" ELSE "poll"])
    /\ event' = NoEvent
    /\ UNCHANGED_env
    /\ UNCHANGED <<trade, sell_transactions, wallet, active_monitors, pending_sells,
                   sell_cooldowns, tp_lock, running, tier_fires, prev_exec>>

\* External sell detection, the closure (lines 222-253).
ExtClose(t) ==
    /\ Idle
    /\ task[t].pc = "ext_price"
    /\ Len(sell_transactions) < MaxLedger
    /\ sell_transactions' = log_sell(sell_transactions, 100, <<"EXTERNAL SELL">>)
    /\ trade' = update_trade(trade, "CLOSED", task[t].meta)
    /\ SetTask(t, [task[t] EXCEPT !.pc = "cleanup"])
    /\ running' = t
    /\ event' = [kind |-> "external_close", task |-> t]
    /\ UNCHANGED_env
    /\ UNCHANGED <<wallet, active_monitors, pending_sells,
                   sell_cooldowns, tp_lock, tier_fires, prev_exec>>

\* pnl_percent >= g / 100, for the price p
GainAtLeast(p, g) == (p - EntryPrice) * 100 >= g * EntryPrice
GainAbove(p, g) == (p - EntryPrice) * 100 > g * EntryPrice

\* A call of self.sell(address, current_price, percentage, reason): the frame.
CallSell(r, percentage, reason, after) ==
    [r EXCEPT !.pc = "sell_entry",
              !.sell = [NoSell EXCEPT !.percentage = percentage,
                                      !.reason = reason,
                                      !.after = after]]

\* Break-even lock (lines 490-497): whether it fires.
break_even_fires(p, meta, stop_loss_price) ==
    /\ GainAtLeast(p, BREAK_EVEN_GAIN)
    /\ ~meta.break_even_locked
    /\ EntryPrice > stop_loss_price

\* Trailing stop (lines 502-507).
trailing_stop(p, highest_price, stop_loss_price) ==
    IF GainAtLeast(p, BREAK_EVEN_GAIN)
    THEN Max(stop_loss_price, (highest_price * TRAIL_BELOW_HIGH) \div 100)
    ELSE stop_loss_price

\* monitor_position without its zombie kill.
zombie_kill_never(held, p) == FALSE

\* Line 485: held for more than 6 hours, at a loss.
zombie_kill(held, p) == held /\ p < EntryPrice

\* monitor_position without its manual override: a request is never seen.
manual_sell_never(status) == FALSE

\* Line 461: the operator's request, in the status read at the loop head.
manual_sell_requested(status) == status = "SELL_REQUEST"

\* One poll: the price arrives (lines 255-354), then the manual sell request,
\* the max-MC write, the zombie kill, the break-even lock and the trailing
\* stop (lines 448-507).  Whether the market cap is a new maximum is an input.
EvaluateAt(t, p, mc_is_new_max) ==
         LET r0 == [task[t] EXCEPT !.current_price = p,
                                   !.highest_price = Max(task[t].highest_price, p),
                                   !.pre = trade]
             status == r0.status
             after470 == IF mc_is_new_max THEN update_trade(trade, status, r0.meta)
                         ELSE trade
             be == break_even_fires(p, r0.meta, r0.stop_loss_price)
             sl1 == IF be THEN EntryPrice ELSE r0.stop_loss_price
             meta1 == IF be THEN [r0.meta EXCEPT !.break_even_locked = TRUE] ELSE r0.meta
         IN  IF manual_sell_requested(status)
             THEN /\ SetTask(t, CallSell(r0, 100, <<"Manual Panic Sell">>, "break"))
                  /\ trade' = trade
             ELSE IF zombie_kill(held_over_6h, p)
             THEN /\ SetTask(t, CallSell(r0, 100, <<"ZOMBIE KILL">>, "break"))
                  /\ trade' = after470
             ELSE /\ SetTask(t, [r0 EXCEPT
                         !.pc = "tiers",
                         !.meta = meta1,
                         !.stop_loss_price = trailing_stop(p, r0.highest_price, sl1)])
                  /\ trade' = IF be THEN update_trade(after470, status, meta1)
                              ELSE after470

\* A poll cycle whose first price source answered (lines 255-507), where no
\* price fetch fails: the price attributes are written and never read, and
\* their values are not kept.
Evaluate(t) ==
    /\ Idle
    /\ task[t].pc = "poll"
    /\ \E p \in scn.prices, mc_is_new_max \in BOOLEAN : EvaluateAt(t, p, mc_is_new_max)
    /\ running' = t
    \* lines 276-294, 330, 339: a poll of the model is one whose price and
    \* market data arrived
    /\ attrs' = attrs \cup {"_cached_data_", "_price_fail_count_", "_last_valid_price_"}
    /\ event' = [kind |-> "evaluate", task |-> t]
    /\ UNCHANGED_scn
    /\ UNCHANGED <<sell_transactions, wallet, active_monitors, pending_sells,
                   sell_cooldowns, tp_lock, tier_fires, prev_exec>>

\* A poll cycle whose price sources can fail (lines 255-507).  The market
\* price of the cycle is p; the real-time feed (line 256), the second feed
\* (line 285) and the market-data lookup (lines 277 and 290) each return it
\* or nothing; refresh tells whether the cached market data is due (line 276).
\* Then the cached data's price (line 299), then the last valid price (line
\* 321), else the cycle is skipped (line 327).
PollPrices(t) ==
    /\ Idle
    /\ task[t].pc = "poll"
    /\ \E p \in scn.prices :
       \E jupiter_ok \in BOOLEAN, helius_ok \in BOOLEAN, refresh \in BOOLEAN,
          dex_ok \in BOOLEAN, fresh_ok \in BOOLEAN, mc_is_new_max \in BOOLEAN :
         LET had == IF "_cached_data_" \in attrs THEN price_attrs.cached_data ELSE 0
             fetched == (refresh \/ "_cached_data_" \notin attrs) /\ dex_ok
             cached1 == IF fetched THEN p ELSE had
             realtime == IF jupiter_ok THEN p ELSE 0
             second == IF realtime = 0 /\ helius_ok THEN p ELSE realtime
             fresh == second = 0 /\ fresh_ok
             cached2 == IF fresh THEN p ELSE cached1
             third == IF fresh THEN p ELSE second
             current_price == IF third = 0 THEN cached2 ELSE third
             answered == fetched \/ second # 0 \/ fresh
             failed == current_price = 0
             used == IF failed THEN price_attrs.last_valid_price ELSE current_price
             fail_count == IF failed THEN Min(price_attrs.price_fail_count + 1, MaxFails)
                           ELSE 0
         IN  /\ price_attrs' =
                    [cached_data |-> cached2,
                     last_valid_price |-> used,
                     price_fail_count |-> fail_count]
             /\ last_good_price' = IF answered THEN p ELSE last_good_price
             /\ attrs' = attrs \cup {"_price_fail_count_"}
                               \cup (IF cached2 > 0 THEN {"_cached_data_"} ELSE {})
                               \cup (IF failed THEN {} ELSE {"_last_valid_price_"})
             /\ IF used = 0
                THEN /\ SetTask(t, [task[t] EXCEPT !.pc = "loop_head"])
                     /\ trade' = trade
                ELSE EvaluateAt(t, used, mc_is_new_max)
             /\ event' = [kind |-> "poll", task |-> t, answered |-> answered,
                          skipped |-> used = 0, price |-> used,
                          fails_before |-> price_attrs.price_fail_count,
                          fails |-> fail_count]
    /\ running' = t
    /\ UNCHANGED <<scn, real_mode, held_over_6h, now, pending_buys, signal_registry,
                   trade_source, buy_call>>
    /\ UNCHANGED <<sell_transactions, wallet, active_monitors, pending_sells,
                   sell_cooldowns, tp_lock, tier_fires, prev_exec>>

\* The ladder if no tier ever fired.
tier_never_fires(p, factor, hit, name, tp_locks) == FALSE

\* A take-profit tier's condition (lines 522, 536, 550).
tier_fires_now(p, factor, hit, name, tp_locks) ==
    /\ p * 10 >= EntryPrice * factor
    /\ ~hit
    /\ name \notin tp_locks

\* The stop after a tier fired (lines 528-530, 542-544, 556-557).
tier_stop(stop_loss_price, sl_factor) ==
    Max(stop_loss_price, (EntryPrice * sl_factor) \div 10)

Bump(n) == Min(n + 1, 2)

\* The take-profit ladder (lines 509-559).
Tiers(t) ==
    /\ running = t
    /\ task[t].pc = "tiers"
    /\ LET r == task[t]
           p == r.current_price
           tp_locks == IF tp_lock = NoAttr THEN {} ELSE tp_lock
           f1 == tier_fires_now(p, TP1_FACTOR, r.meta.tp_2x_hit, "2x", tp_locks)
           f2 == tier_fires_now(p, TP2_FACTOR, r.meta.tp3_hit, "3x", tp_locks)
           f3 == tier_fires_now(p, TP3_FACTOR, r.meta.tp4_hit, "5x", tp_locks)
           sl1 == IF f1 THEN tier_stop(r.stop_loss_price, TP1_SL) ELSE r.stop_loss_price
           sl2 == IF f2 THEN tier_stop(sl1, TP2_SL) ELSE sl1
           sl3 == IF f3 THEN tier_stop(sl2, TP3_SL) ELSE sl2
           total == (IF f1 THEN TP1_AMOUNT ELSE 0) + (IF f2 THEN TP2_AMOUNT ELSE 0)
                    + (IF f3 THEN TP3_AMOUNT ELSE 0)
           reasons == (IF f1 THEN <<"TP (1.8x)">> ELSE <<>>)
                      \o (IF f2 THEN <<"TP (3.0x)">> ELSE <<>>)
                      \o (IF f3 THEN <<"TP (5.0x)">> ELSE <<>>)
       IN  /\ tp_lock' = tp_locks \cup (IF f1 THEN {"2x"} ELSE {})
                                  \cup (IF f2 THEN {"3x"} ELSE {})
                                  \cup (IF f3 THEN {"5x"} ELSE {})
           /\ tier_fires' = [tier_fires EXCEPT
                  !["2x"] = IF f1 THEN Bump(@) ELSE @,
                  !["3x"] = IF f2 THEN Bump(@) ELSE @,
                  !["5x"] = IF f3 THEN Bump(@) ELSE @]
           /\ SetTask(t, [r EXCEPT
                  !.pc = IF f3 THEN "tp3_alert" ELSE "alerts",
                  !.stop_loss_price = sl3,
                  !.total_sell_pct = total,
                  !.sell_reasons = reasons,
                  !.meta = [r.meta EXCEPT !.tp_2x_hit = @ \/ f1,
                                          !.tp3_hit = @ \/ f2,
                                          !.tp4_hit = @ \/ f3]])
           \* the Discord alert of the 5x tier is awaited (line 564)
           /\ running' = IF f3 THEN 0 ELSE t
           /\ event' = [kind |-> "tier_eval", task |-> t, fired |-> reasons]
    /\ UNCHANGED_env
    /\ UNCHANGED <<trade, sell_transactions, wallet, active_monitors, pending_sells,
                   sell_cooldowns, prev_exec>>

\* Line 600: meta key tp2_hit is read here and written nowhere.
bundle_status(meta) == IF meta.tp2_hit THEN "MOONBAG" ELSE "PARTIAL"

\* Granular profit alerts (lines 569-589) and the bundled sell (lines 591-597).
\* market_vol is the 5-minute transaction count of the token at this moment;
\* the code has not asked for it when it bundles (line 621 comes later).
Alerts(t) ==
    /\ \/ running = t /\ task[t].pc = "alerts"
       \/ Idle /\ task[t].pc = "tp3_alert"
    /\ \E market_vol \in scn.volumes :
       LET r == task[t]
           p == r.current_price
           current_x == p \div EntryPrice
           crossed == current_x > r.meta.last_x_alert /\ p >= 2 * EntryPrice
           meta1 == IF crossed THEN [r.meta EXCEPT !.last_x_alert = current_x] ELSE r.meta
           r1 == [r EXCEPT !.meta = meta1]
       IN  /\ trade' = IF crossed THEN update_trade(trade, r.status, meta1) ELSE trade
           /\ IF r.total_sell_pct > 0
              THEN SetTask(t, CallSell(r1, Min(r.total_sell_pct, 100), r.sell_reasons, "bundle"))
              ELSE SetTask(t, [r1 EXCEPT !.pc = "tail"])
           /\ event' = [kind |-> "alerts", task |-> t,
                        from |-> IF crossed THEN r.meta.last_x_alert + 1 ELSE 0,
                        to |-> IF crossed THEN current_x ELSE 0,
                        market_vol |-> market_vol]
    /\ running' = t
    /\ UNCHANGED_env
    /\ UNCHANGED <<sell_transactions, wallet, active_monitors, pending_sells,
                   sell_cooldowns, tp_lock, tier_fires, prev_exec>>

\* Trailing stop of the moonbag (lines 608-614); clip_count is written nowhere.
moonbag_stop(meta, highest_price, stop_loss_price) ==
    IF meta.tp4_hit
    THEN Max(stop_loss_price, (highest_price * (100 - TRAILING_STOP_PERCENT)) \div 100)
    ELSE stop_loss_price

\* Lines 608-619: the moonbag stop, and whether volume decay is looked at.
TrailAndDecay(t) ==
    /\ running = t
    /\ task[t].pc = "tail"
    /\ LET r == task[t]
           look == ~r.meta.volume_decay_triggered
                   /\ GainAbove(r.current_price, VOLUME_DECAY_GAIN)
       IN  /\ SetTask(t, [r EXCEPT
                  !.pc = IF look THEN "decay_check" ELSE "stop_check",
                  !.stop_loss_price = moonbag_stop(r.meta, r.highest_price, r.stop_loss_price)])
           /\ running' = IF look THEN 0 ELSE t
    /\ event' = NoEvent
    /\ UNCHANGED_env
    /\ UNCHANGED <<trade, sell_transactions, wallet, active_monitors, pending_sells,
                   sell_cooldowns, tp_lock, tier_fires, prev_exec>>

\* Line 630
volume_decayed(peak_vol, current_vol) ==
    peak_vol > VOLUME_PEAK_FLOOR /\ current_vol * 2 < peak_vol

\* Volume decay, after get_momentum_data returned (lines 621-632).
DecayCheck(t) ==
    /\ Idle
    /\ task[t].pc = "decay_check"
    /\ \E current_vol \in scn.volumes :
         LET r == task[t]
             peak_vol == Max(r.meta.peak_volume, current_vol)
             r1 == [r EXCEPT !.meta.peak_volume = peak_vol]
         IN  /\ IF volume_decayed(peak_vol, current_vol)
                THEN SetTask(t, CallSell(r1, VOLUME_DECAY_AMOUNT, <<"VOLUME DECAY">>, "decay"))
                ELSE SetTask(t, [r1 EXCEPT !.pc = "stop_check"])
             /\ event' = [kind |-> "decay_check", task |-> t,
                          current_vol |-> current_vol, peak_vol |-> peak_vol]
    /\ running' = t
    /\ UNCHANGED_env
    /\ UNCHANGED <<trade, sell_transactions, wallet, active_monitors, pending_sells,
                   sell_cooldowns, tp_lock, tier_fires, prev_exec>>

\* Line 642
stop_loss_hit(current_price, stop_loss_price) == current_price <= stop_loss_price

\* The hard stop and the PnL write (lines 637-649).  The stored pnl_percent is
\* not kept: whether this cycle's differs from it by more than 0.01 is an input.
StopCheck(t) ==
    /\ running = t
    /\ task[t].pc = "stop_check"
    /\ LET r == task[t]
       IN  IF stop_loss_hit(r.current_price, r.stop_loss_price)
           THEN /\ SetTask(t, CallSell(r, 100, <<"STOP LOSS">>, "break"))
                /\ trade' = trade
           ELSE /\ SetTask(t, [r EXCEPT !.pc = "loop_head"])
                /\ \E pnl_moved \in BOOLEAN :
                     trade' = IF pnl_moved
                              THEN update_trade_status_only(trade, r.status)
                              ELSE trade
    /\ running' = t
    /\ event' = NoEvent
    /\ UNCHANGED_env
    /\ UNCHANGED <<sell_transactions, wallet, active_monitors, pending_sells,
                   sell_cooldowns, tp_lock, tier_fires, prev_exec>>

\* What follows each await self.sell(...) in monitor_position: break (lines
\* 464, 488, 645), or the write and continue (lines 599-602, 633-635).
AfterSell(t) ==
    /\ running = t
    /\ task[t].pc = "after_sell"
    /\ LET r == task[t]
           decayed == [r.meta EXCEPT !.volume_decay_triggered = TRUE]
       IN  CASE r.sell.after = "break" ->
                  /\ SetTask(t, [r EXCEPT !.pc = "cleanup"])
                  /\ trade' = trade
             [] r.sell.after = "bundle" ->
                  /\ SetTask(t, [r EXCEPT !.pc = "loop_head"])
                  /\ trade' = update_trade(trade, bundle_status(r.meta), r.meta)
             [] r.sell.after = "decay" ->
                  /\ SetTask(t, [r EXCEPT !.pc = "loop_head", !.meta = decayed])
                  /\ trade' = update_trade(trade, r.status, decayed)
    /\ running' = t
    /\ event' = [kind |-> "after_sell", task |-> t]
    /\ UNCHANGED_env
    /\ UNCHANGED <<sell_transactions, wallet, active_monitors, pending_sells,
                   sell_cooldowns, tp_lock, tier_fires, prev_exec>>

\* ------------------------------------------------------------- sell

\* sell without its cooldown: no call is ever rejected for coming too soon.
sell_cooldown_never(last_sell_time, time_now) == FALSE

\* Lines 1645-1650: the cooldown rejects the call.
sell_cooldown_active(last_sell_time, time_now) ==
    last_sell_time # NoTime /\ time_now - last_sell_time < SELL_COOLDOWN_SECONDS

\* sell without its lock check: pending_sells is written and never read.
sell_locked_never(pending, address) == FALSE

\* Lines 1653-1655: the lock rejects the call.
sell_locked(pending, address) == address \in pending

\* sell without its finally clause: the address stays in pending_sells.
sell_lock_kept(pending, address) == pending

\* The finally clause of sell (lines 1966-1968).
release_sell_lock(pending, address) == pending \ {address}

\* Line 1669; meta key is_paper is not set by add_trade.
use_paper_mode == ~real_mode

\* sell, from its first line to its first await: the cooldown, the lock, the
\* read of the trade (lines 1642-1676).  In paper mode nothing is awaited
\* before the ledger record (lines 1782-1811).
SellEntry(t) ==
    /\ running = t
    /\ task[t].pc = "sell_entry"
    /\ LET r == task[t]
           call == [kind |-> "sell_call", task |-> t,
                    percentage |-> r.sell.percentage, reason |-> r.sell.reason]
       IN  IF sell_cooldown_active(sell_cooldowns, now)
           THEN /\ SetTask(t, [r EXCEPT !.pc = "after_sell"])
                /\ event' = [call EXCEPT !.kind = "sell_rejected"]
                /\ running' = t
                /\ UNCHANGED <<pending_sells, sell_cooldowns>>
           ELSE IF sell_locked(pending_sells, Addr)
           THEN /\ SetTask(t, [r EXCEPT !.pc = "after_sell"])
                /\ event' = [call EXCEPT !.kind = "sell_rejected"]
                /\ running' = t
                /\ UNCHANGED <<pending_sells, sell_cooldowns>>
           ELSE /\ pending_sells' = pending_sells \cup {Addr}
                /\ sell_cooldowns' = now
                /\ event' = call
                /\ IF use_paper_mode
                   THEN /\ SetTask(t, [r EXCEPT !.pc = "sell_log",
                                                !.sell.now = now,
                                                !.sell.meta = trade.meta,
                                                !.sell.tx_sig = "PAPER_TX"])
                        /\ running' = t
                   ELSE /\ SetTask(t, [r EXCEPT !.pc = "sell_balance",
                                                !.sell.now = now,
                                                !.sell.meta = trade.meta,
                                                !.sell.tx_sig = "PAPER_TX"])
                        /\ running' = 0
    /\ UNCHANGED_env
    /\ UNCHANGED <<trade, sell_transactions, wallet, active_monitors,
                   tp_lock, tier_fires, prev_exec>>

\* Line 1814 (real mode) and line 1804 (paper mode): whether a ledger record
\* is written.
sell_is_logged(tx_sig) == tx_sig \in {"PAPER_TX", "SIG"}

\* A sell() that acquired the lock returns: the finally clause runs and the
\* caller goes on.
SellReturns(t, r) ==
    /\ pending_sells' = release_sell_lock(pending_sells, Addr)
    /\ SetTask(t, [r EXCEPT !.pc = "after_sell"])
    /\ running' = t
    /\ prev_exec' = IF r.pc = "sell_notify" /\ sell_is_logged(r.sell.tx_sig)
                    THEN [start |-> r.sell.now, end |-> now]
                    ELSE prev_exec

\* The wait for a token balance (lines 1678-1691): three lookups, 3 s apart.
SellBalance(t) ==
    /\ Idle
    /\ task[t].pc = "sell_balance"
    /\ \E lookup_ok \in LookupOutcomes :
         IF get_token_balance(wallet, lookup_ok) <= 0
         THEN /\ SellReturns(t, task[t])
              /\ event' = [kind |-> "sell_end", task |-> t, result |-> "no balance",
                          sell_failed_alert |-> FALSE]
         ELSE /\ SetTask(t, [task[t] EXCEPT !.pc = "sell_attempt"])
              /\ event' = NoEvent
              /\ UNCHANGED <<pending_sells, running, prev_exec>>
    /\ UNCHANGED_env
    /\ UNCHANGED <<trade, sell_transactions, wallet, active_monitors,
                   sell_cooldowns, tp_lock, tier_fires>>

\* Lines 1716-1728: PumpPortal for a pump or bonk mint, Jupiter when that gave
\* no signature.  The number of swaps submitted in one attempt.
swaps_submitted(address, pump_gave_sig) ==
    IF address \in PumpSuffix THEN (IF pump_gave_sig THEN 1 ELSE 2) ELSE 1

\* The next attempt of the retry loop, or its end (lines 1702, 1759).
NextAttempt(r) ==
    [r EXCEPT !.sell.attempt = @ + 1,
              !.pc = IF r.sell.attempt + 1 < max_sell_attempts
                     THEN "sell_attempt" ELSE "sell_failed"]

\* One pass of the retry loop up to the swap (lines 1702-1731, 1754-1757).
\* A swap that got a signature either lands on the chain or does not.
SellAttempt(t) ==
    /\ Idle
    /\ task[t].pc = "sell_attempt"
    /\ task[t].sell.attempt < max_sell_attempts
    /\ \E lookup_ok \in LookupOutcomes, gave_sig \in {"pumpportal", "jupiter", "none"},
          lands \in BOOLEAN :
         LET r == task[t]
             current_balance == get_token_balance(wallet, lookup_ok)
             amount_to_sell == (current_balance * r.sell.percentage) \div 100
         IN  IF current_balance <= 0
             THEN \* "Tokens already sold!": sell_success with tx_sig as it is
                  /\ SetTask(t, [r EXCEPT !.pc = "sell_log"])
                  /\ event' = NoEvent
                  /\ wallet' = wallet
             ELSE IF gave_sig # "none"
             THEN /\ SetTask(t, [r EXCEPT !.pc = "sell_confirm",
                                          !.sell.tx_sig = "SIG",
                                          !.sell.current_balance = current_balance,
                                          !.sell.got_sig = TRUE,
                                          !.sell.resubmitted = @ \/ r.sell.got_sig])
                  /\ event' = [kind |-> "swap", task |-> t,
                               submitted |-> swaps_submitted(Addr, gave_sig = "pumpportal")]
                  /\ wallet' = IF lands THEN wallet - amount_to_sell ELSE wallet
             ELSE /\ SetTask(t, NextAttempt([r EXCEPT !.sell.tx_sig = "NONE"]))
                  /\ event' = [kind |-> "swap", task |-> t,
                               submitted |-> swaps_submitted(Addr, FALSE)]
                  /\ wallet' = wallet
    /\ UNCHANGED_env
    /\ UNCHANGED <<trade, sell_transactions, active_monitors, pending_sells,
                   sell_cooldowns, tp_lock, running, tier_fires, prev_exec>>

\* The balance check as it would be if an unchanged balance meant another try.
after_tx_sent_retrying(percentage, current_balance, new_balance) ==
    IF percentage >= 100 /\ new_balance <= 0 THEN "verified"
    ELSE IF percentage < 100 /\ new_balance < current_balance THEN "verified"
    ELSE "retry"

\* Lines 1741-1753: what the balance check after a sent transaction decides.
\* All three branches set sell_success and leave the loop.
after_tx_sent(percentage, current_balance, new_balance) ==
    IF percentage >= 100 /\ new_balance <= 0 THEN "verified"
    ELSE IF percentage < 100 /\ new_balance < current_balance THEN "verified"
    ELSE "assumed pending"

\* The balance check 8 s after a transaction was sent (lines 1738-1753).
SellConfirm(t) ==
    /\ Idle
    /\ task[t].pc = "sell_confirm"
    /\ \E lookup_ok \in LookupOutcomes :
         LET r == task[t]
             new_balance == get_token_balance(wallet, lookup_ok)
             verdict == after_tx_sent(r.sell.percentage, r.sell.current_balance, new_balance)
         IN  IF verdict \in {"verified", "assumed pending"}
             THEN SetTask(t, [r EXCEPT !.pc = "sell_log"])
             ELSE SetTask(t, NextAttempt(r))
    /\ event' = NoEvent
    /\ UNCHANGED_env
    /\ UNCHANGED <<trade, sell_transactions, wallet, active_monitors, pending_sells,
                   sell_cooldowns, tp_lock, running, tier_fires, prev_exec>>

\* Lines 1759-1766: no attempt succeeded; the alert is sent and sell returns.
SellFailed(t) ==
    /\ Idle
    /\ task[t].pc = "sell_failed"
    /\ SellReturns(t, task[t])
    /\ event' = [kind |-> "sell_end", task |-> t, result |-> "failed",
                 sell_failed_alert |-> TRUE]
    /\ UNCHANGED_env
    /\ UNCHANGED <<trade, sell_transactions, wallet, active_monitors,
                   sell_cooldowns, tp_lock, tier_fires>>

\* Lines 1851-1852: a partial sell notes its price in the meta it read when it
\* started (and the time, which the model leaves out).
partial_exit(meta, current_price) == [meta EXCEPT !.partial_exit_price = current_price]

\* The ledger record and the new status (lines 1803-1871).  A partial sell
\* writes PARTIAL at once; a full sell leaves active_monitors and, in real
\* mode, waits 3 s and closes the token account before it writes CLOSED.
SellLog(t) ==
    /\ StepOf(t)
    /\ task[t].pc = "sell_log"
    /\ Len(sell_transactions) < MaxLedger
    /\ LET r == task[t]
       IN  /\ sell_transactions' =
                  IF sell_is_logged(r.sell.tx_sig)
                  THEN log_sell(sell_transactions, r.sell.percentage, r.sell.reason)
                  ELSE sell_transactions
           /\ IF r.sell.percentage < 100
              THEN /\ trade' = update_trade(trade, "PARTIAL",
                                             partial_exit(r.sell.meta, r.current_price))
                   /\ active_monitors' = active_monitors
                   /\ SetTask(t, [r EXCEPT !.pc = "sell_notify"])
              ELSE /\ active_monitors' = active_monitors \ {Addr}
                   /\ IF real_mode
                      THEN /\ trade' = trade
                           /\ SetTask(t, [r EXCEPT !.pc = "sell_settle"])
                      ELSE /\ trade' = update_trade(trade, "CLOSED", r.sell.meta)
                           /\ SetTask(t, [r EXCEPT !.pc = "sell_notify"])
    /\ running' = 0
    /\ event' = [kind |-> "sell_logged", task |-> t]
    /\ UNCHANGED_env
    /\ UNCHANGED <<wallet, pending_sells, sell_cooldowns, tp_lock, tier_fires, prev_exec>>

\* Line 1871 of a full sell in real mode.
SellSettle(t) ==
    /\ Idle
    /\ task[t].pc = "sell_settle"
    /\ trade' = update_trade(trade, "CLOSED", task[t].sell.meta)
    /\ SetTask(t, [task[t] EXCEPT !.pc = "sell_notify"])
    /\ event' = [kind |-> "sell_closed", task |-> t]
    /\ UNCHANGED_env
    /\ UNCHANGED <<sell_transactions, wallet, active_monitors, pending_sells,
                   sell_cooldowns, tp_lock, running, tier_fires, prev_exec>>

\* The webhooks were sent (lines 1874-1964); sell returns.
SellNotify(t) ==
    /\ Idle
    /\ task[t].pc = "sell_notify"
    /\ SellReturns(t, task[t])
    /\ event' = [kind |-> "sell_end", task |-> t, result |-> "sold",
                 sell_failed_alert |-> FALSE]
    /\ UNCHANGED_env
    /\ UNCHANGED <<trade, sell_transactions, wallet, active_monitors,
                   sell_cooldowns, tp_lock, tier_fires>>

\* ------------------------------------------------------- exceptions

\* The store raises (sqlite3.OperationalError: the dashboard process holds the
\* database) in Database.get_trade at line 211, or in Database.update_trade at
\* line 1871 of a full sell in real mode.  Neither call is guarded: the
\* exception leaves sell() through its finally clause (line 1966) and reaches
\* the handler of the loop (line 651), which sleeps one second.
Raise(t) ==
    /\ \/ /\ running = t
          /\ task[t].pc = "loop_head"
          /\ Addr \in active_monitors
          /\ pending_sells' = pending_sells
          /\ event' = [kind |-> "exception", task |-> t, at |-> "get_trade"]
       \/ /\ Idle
          /\ task[t].pc = "sell_settle"
          /\ pending_sells' = release_sell_lock(pending_sells, Addr)
          /\ event' = [kind |-> "exception", task |-> t, at |-> "update_trade"]
    /\ SetTask(t, [task[t] EXCEPT !.pc = "backoff"])
    /\ running' = 0
    /\ attrs' = IF task[t].pc = "loop_head" THEN attrs \cup {"_loop_"} ELSE attrs
    /\ UNCHANGED_scn
    /\ UNCHANGED <<trade, sell_transactions, wallet, active_monitors,
                   sell_cooldowns, tp_lock, tier_fires, prev_exec>>

\* Lines 652-653: the backoff is over; the while condition comes next.
Backoff(t) ==
    /\ Idle
    /\ task[t].pc = "backoff"
    /\ SetTask(t, [task[t] EXCEPT !.pc = "loop_head"])
    /\ running' = t
    /\ event' = NoEvent
    /\ UNCHANGED_env
    /\ UNCHANGED <<trade, sell_transactions, wallet, active_monitors, pending_sells,
                   sell_cooldowns, tp_lock, tier_fires, prev_exec>>

\* ------------------------------------------------------------- buying

\* What no step of buy writes.
UNCHANGED_buy ==
    UNCHANGED <<scn, real_mode, held_over_6h, now, sell_transactions,
                pending_sells, sell_cooldowns, tp_lock, running, tier_fires,
                prev_exec, stop_loss_seen, alerts_sent, peak_volume_seen,
                highest_seen, attrs, price_attrs, last_good_price>>

\* buy if it did not look at pending_buys.
buy_never_locked(pending, address) == FALSE

\* buy, line 1088: another call is processing the address.
buy_locked(pending, address) == address \in pending

\* buy, lines 1183-1185: a signal from another source, inside the window, for
\* a position that has not been boosted.
is_valid_boost(source, original_source, in_window, meta) ==
    /\ source # NoSource
    /\ original_source # NoSource
    /\ source # original_source
    /\ in_window
    /\ ~meta.boosted

\* buy, lines 1195-1201: another source has a buy in flight.
signal_in_flight(source, registry, in_window) ==
    /\ registry # NoSource
    /\ in_window
    /\ source # registry

\* return: what the call did stays, its locals go.
Return(c) ==
    buy_call' = [buy_call EXCEPT ![c].pc = "returned", ![c].source = NoSource]

\* buy, lines 1084-1091: the check and the lock, with no await between them.
BuyEnter(c) ==
    /\ Idle
    /\ buy_call[c].pc = "idle"
    /\ \A d \in Calls : d < c => buy_call[d].pc # "idle"
    /\ \E source \in Sources :
         IF buy_locked(pending_buys, Addr)
         THEN /\ Return(c)
              /\ UNCHANGED pending_buys
         ELSE /\ buy_call' = [buy_call EXCEPT ![c].pc = "filters",
                                              ![c].source = source]
              /\ pending_buys' = pending_buys \cup {Addr}
    /\ event' = [kind |-> "buy", call |-> c, at |-> "enter"]
    /\ UNCHANGED_buy
    /\ UNCHANGED <<trade, wallet, active_monitors, task, signal_registry,
                   trade_source>>

\* buy, lines 1093-1211: the filters (each awaits, and a filter that rejects
\* releases the lock and returns), then without an await the look at the
\* store and at the signal registry.
BuyFilters(c) ==
    /\ Idle
    /\ buy_call[c].pc = "filters"
    /\ \E passed \in BOOLEAN, in_window \in BOOLEAN, reg_in_window \in BOOLEAN :
         LET source == buy_call[c].source
             existing_trade == trade
             is_boost == /\ existing_trade # NoTrade
                         /\ is_valid_boost(source, trade_source, in_window,
                                           existing_trade.meta)
         IN  IF \/ ~passed
                \/ existing_trade # NoTrade /\ ~is_boost
                \/ ~is_boost /\ signal_in_flight(source, signal_registry, reg_in_window)
             THEN /\ Return(c)
                  /\ pending_buys' = pending_buys \ {Addr}
                  /\ UNCHANGED signal_registry
             ELSE /\ buy_call' = [buy_call EXCEPT ![c].pc = "swap",
                                                  ![c].is_boost = is_boost]
                  /\ signal_registry' = IF is_boost THEN signal_registry ELSE source
                  /\ UNCHANGED pending_buys
    /\ event' = [kind |-> "buy", call |-> c, at |-> "filters"]
    /\ UNCHANGED_buy
    /\ UNCHANGED <<trade, wallet, active_monitors, task, trade_source>>

\* buy, lines 1213-1402: the balance and safety checks (a check that rejects
\* releases the lock, forgets the signal and returns), then the swap; a swap
\* that fails releases the lock and returns.  Paper trading cannot fail.
BuySwap(c) ==
    /\ Idle
    /\ buy_call[c].pc = "swap"
    /\ \E outcome \in IF real_mode THEN {"rejected", "failed", "sent"}
                                   ELSE {"rejected", "sent"} :
         IF outcome = "sent"
         THEN /\ buy_call' = [buy_call EXCEPT ![c].pc = "record",
                                              ![c].swapped = TRUE]
              /\ wallet' = IF buy_call[c].is_boost THEN wallet ELSE EntryTokens
              /\ UNCHANGED <<pending_buys, signal_registry>>
         ELSE /\ Return(c)
              /\ pending_buys' = pending_buys \ {Addr}
              /\ signal_registry' = IF outcome = "rejected" /\ ~buy_call[c].is_boost
                                    THEN NoSource ELSE signal_registry
              /\ UNCHANGED wallet
    /\ event' = [kind |-> "buy", call |-> c, at |-> "swap"]
    /\ UNCHANGED_buy
    /\ UNCHANGED <<trade, active_monitors, task, trade_source>>

\* buy, lines 1457-1528: a boost marks the row, a first buy inserts it (column
\* address is UNIQUE: a second insert raises and the call ends there, the lock
\* still held); then the lock is released and the signal forgotten.
BuyRecord(c) ==
    /\ Idle
    /\ buy_call[c].pc = "record"
    /\ IF buy_call[c].is_boost
       THEN /\ trade' = [trade EXCEPT !.meta.boosted = TRUE]
            /\ buy_call' = [buy_call EXCEPT ![c].pc = "notify"]
            /\ pending_buys' = pending_buys \ {Addr}
            /\ UNCHANGED <<trade_source, signal_registry>>
       ELSE IF trade # NoTrade
       THEN /\ buy_call' = [buy_call EXCEPT ![c].pc = "raised"]
            /\ UNCHANGED <<trade, trade_source, pending_buys, signal_registry>>
       ELSE /\ trade' = add_trade
            /\ trade_source' = buy_call[c].source
            /\ buy_call' = [buy_call EXCEPT ![c].pc = "notify", ![c].added = TRUE]
            /\ pending_buys' = pending_buys \ {Addr}
            /\ signal_registry' = NoSource
    /\ event' = [kind |-> "buy", call |-> c, at |-> "record"]
    /\ UNCHANGED_buy
    /\ UNCHANGED <<wallet, active_monitors, task>>

\* buy, lines 1530-1615: the webhooks (awaits), then start_monitor unless the
\* call was a boost.
BuyFinish(c) ==
    /\ Idle
    /\ buy_call[c].pc = "notify"
    /\ (~buy_call[c].is_boost /\ start_monitor_spawns(active_monitors, Addr))
       => HasFreeTask
    /\ IF buy_call[c].is_boost
       THEN /\ UNCHANGED <<active_monitors, task>>
            /\ Return(c)
       ELSE /\ start_monitor
            /\ buy_call' = [buy_call EXCEPT ![c].pc = "returned",
                                            ![c].source = NoSource,
                                            ![c].monitor = TRUE]
    /\ event' = [kind |-> "buy", call |-> c, at |-> "finish"]
    /\ UNCHANGED_buy
    /\ UNCHANGED <<trade, wallet, pending_buys, signal_registry, trade_source>>

\* ------------------------------------------------------ specification

\* What the program does: the supervisor and the monitor tasks.
Program ==
    \/ Buy
    \/ resume_monitoring
    \/ CallStartMonitor
    \/ \E t \in Tasks :
         \/ MonitorStart(t)
         \/ LoopHead(t)
         \/ Cleanup(t)
         \/ ExtCheck(t)
         \/ ExtClose(t)
         \/ Evaluate(t)
         \/ Tiers(t)
         \/ Alerts(t)
         \/ TrailAndDecay(t)
         \/ DecayCheck(t)
         \/ StopCheck(t)
         \/ AfterSell(t)
         \/ SellEntry(t)
         \/ SellBalance(t)
         \/ SellAttempt(t)
         \/ SellConfirm(t)
         \/ SellFailed(t)
         \/ SellLog(t)
         \/ SellSettle(t)
         \/ SellNotify(t)

Next ==
    \/ Tick
    \/ OperatorSellRequest
    \/ ExternalSell
    \/ Program

\* Nobody touches the dashboard or the wallet.
NextUnattended ==
    \/ Tick
    \/ Program

Spec == Init /\ [][Next]_vars

\* Restarts: the supervisor may create every task of the model, one after the
\* other or while an earlier one is still inside sell; live trading, a price
\* feed of two prices (below the first stop, above the first tier), lookups
\* that do not fail.
InitRestart ==
    /\ scn = [prices |-> {650, 1900}, volumes |-> {0}, tasks |-> MaxTasks,
              faults |-> FALSE]
    /\ real_mode = TRUE
    /\ held_over_6h = FALSE
    /\ InitProgram

SpecRestart == InitRestart /\ [][NextUnattended]_vars

\* Two monitor tasks and a price that jumps from below 2x to 3x entry.
InitAlerts ==
    /\ scn = [prices |-> {650, 3000}, volumes |-> {0}, tasks |-> 2, faults |-> FALSE]
    /\ real_mode = TRUE
    /\ held_over_6h = FALSE
    /\ InitProgram

SpecAlerts == InitAlerts /\ [][NextUnattended]_vars

\* The unattended program with a store that can raise.
InitRaising ==
    /\ scn = [prices |-> {650, 1900}, volumes |-> {0}, tasks |-> 2, faults |-> FALSE]
    /\ real_mode = TRUE
    /\ held_over_6h = FALSE
    /\ InitProgram

NextRaising ==
    \/ NextUnattended
    \/ \E t \in Tasks : Raise(t) \/ Backoff(t)

SpecRaising == InitRaising /\ [][NextRaising]_vars

\* Signals for the address arrive, from either source and at any moment, one
\* step of a call of buy at a time, while the supervisor resumes monitoring.
\* The monitor tasks are created and do not run: no step of theirs reads or
\* writes pending_buys or signal_registry, inserts a row or deletes one, and
\* buy looks at whether the row exists, not at its status.
InitBuying ==
    /\ scn = [prices |-> {650}, volumes |-> {0}, tasks |-> 2, faults |-> FALSE]
    /\ real_mode \in BOOLEAN
    /\ held_over_6h = FALSE
    /\ InitProgram

NextBuying ==
    \/ resume_monitoring
    \/ \E c \in Calls :
         \/ BuyEnter(c)
         \/ BuyFilters(c)
         \/ BuySwap(c)
         \/ BuyRecord(c)
         \/ BuyFinish(c)

SpecBuying == InitBuying /\ [][NextBuying]_vars

\* One monitor task, a wallet that can be emptied from outside, and price
\* sources that can each return nothing in any poll.
InitPricing ==
    /\ scn = [prices |-> {650, 1500, 1900}, volumes |-> {0}, tasks |-> 1, faults |-> FALSE]
    /\ real_mode = TRUE
    /\ held_over_6h = FALSE
    /\ InitProgram

NextPricing ==
    \/ Tick
    \/ ExternalSell
    \/ Buy
    \/ resume_monitoring
    \/ CallStartMonitor
    \/ \E t \in Tasks :
         \/ MonitorStart(t)
         \/ LoopHead(t)
         \/ Cleanup(t)
         \/ ExtCheck(t)
         \/ ExtClose(t)
         \/ PollPrices(t)
         \/ Tiers(t)
         \/ Alerts(t)
         \/ TrailAndDecay(t)
         \/ DecayCheck(t)
         \/ StopCheck(t)
         \/ AfterSell(t)
         \/ SellEntry(t)
         \/ SellBalance(t)
         \/ SellAttempt(t)
         \/ SellConfirm(t)
         \/ SellFailed(t)
         \/ SellLog(t)
         \/ SellSettle(t)
         \/ SellNotify(t)

SpecPricing == InitPricing /\ [][NextPricing]_vars

\* ============================================================ claims

\* Tasks of monitor_position that have run their first lines and not ended.
Monitoring == {t \in Tasks : task[t].pc \notin {"idle", "new", "done"}}

\* Task t is inside sell(), past the lock check.
InSell(t) ==
    task[t].pc \in {"sell_balance", "sell_attempt", "sell_confirm", "sell_failed",
                    "sell_log", "sell_settle", "sell_notify"}

RECURSIVE SumSold(_)
SumSold(rows) ==
    IF rows = <<>> THEN 0 ELSE Head(rows).percentage_sold + SumSold(Tail(rows))

\* C1: for the token address, at most one monitor_position task is running
\* at any time.
C1_OneMonitor == Cardinality(Monitoring) <= 1

\* C2: the sum of percentage_sold over the records of the position's sell
\* ledger never exceeds 1.0 (100 hundredths).
C2_SoldFractionBound == SumSold(sell_transactions) <= 100

\* C3: for each take-profit tier, at most one poll cycle ever adds the tier's
\* fraction to a bundled sell.
C3_TierOnce == \A k \in DOMAIN tier_fires : tier_fires[k] <= 1

\* A step of task t.
StepBy(t) == task'[t] # task[t]

\* C4: at most one sell() call is past the lock check at any time, and a
\* sell() call that starts while another sell() for the address is in progress
\* returns without submitting a swap and without writing to the store.
C4_OneSellInFlight ==
    /\ [](Cardinality({t \in Tasks : InSell(t)}) <= 1)
    /\ [][\A t \in Tasks :
            (task[t].pc = "sell_entry" /\ StepBy(t) /\ \E u \in Tasks \ {t} : InSell(u))
            => /\ task'[t].pc = "after_sell"
               /\ event'.kind = "sell_rejected"
               /\ UNCHANGED <<trade, sell_transactions, wallet, pending_sells>>]_vars

\* C4, its case: a call was rejected while another task is inside sell().
C4_Witness ==
    /\ event.kind = "sell_rejected"
    /\ \E u \in Tasks \ {event.task} : InSell(u)
    /\ now - sell_cooldowns >= SELL_COOLDOWN_SECONDS

\* Task t is in, or back from, a live sell() call that acquired the lock and
\* got no transaction signature from any submission.
FailedSell(t) ==
    /\ real_mode
    /\ task[t].sell.now # NoTime
    /\ ~task[t].sell.got_sig
    /\ task[t].pc \in {"sell_log", "sell_settle", "sell_notify", "sell_failed", "after_sell"}

\* C5: a sell() call none of whose submissions produced a signature does not
\* mark the position CLOSED, and the position (status, flags, ledger) is left
\* as it was before the sell decision.
C5_FailedSellChangesNothing ==
    [][\A t \in Tasks :
         (FailedSell(t) /\ StepBy(t))
         => /\ trade'.status = "CLOSED" => trade.status = "CLOSED"
            /\ UNCHANGED <<trade, sell_transactions>>]_vars

\* C6: within one sell() call no swap is submitted once a submission has
\* returned a signature, whatever the balance check says afterwards, and the
\* retry loop makes at most 5 attempts.
C6_NoResubmission ==
    [][\A t \in Tasks :
         /\ (event'.kind = "swap" /\ event'.task = t)
            => ~task[t].sell.got_sig /\ task[t].sell.attempt < max_sell_attempts
         /\ task'[t].sell.attempt <= max_sell_attempts
         /\ task[t].sell.got_sig /\ task[t].pc = "sell_confirm" /\ StepBy(t)
            => task'[t].pc = "sell_log"]_vars

\* C6, its case: a signature was returned, the balance check found the balance
\* unchanged, and the call went on to the ledger without another attempt.
C6_Witness ==
    \E t \in Tasks :
        /\ task[t].sell.got_sig
        /\ task[t].pc = "sell_log"
        /\ wallet = task[t].sell.current_balance

\* C7: once the stored status is CLOSED, no sell() call is made and no
\* take-profit tier is evaluated for the address.
C7_TerminalExclusive ==
    [][trade.status = "CLOSED"
       => event'.kind \notin {"sell_call", "sell_rejected", "tier_eval"}]_vars

\* C8: the stop-loss price in force never decreases over the lifetime of the
\* position: not within a monitor (break-even lock, trailing updates, tier
\* floors), and not when resume_monitoring starts a monitor after the earlier
\* one has ended.
C8_StopNeverRetreats ==
    [][\A t \in Tasks :
         /\ (t \in Monitoring /\ task'[t].pc # "done")
            => task'[t].stop_loss_price >= task[t].stop_loss_price
         /\ (task[t].pc = "new" /\ StepBy(t) /\ Monitoring = {})
            => task'[t].stop_loss_price >= stop_loss_seen]_vars

\* C9: whenever the persisted break_even_locked flag is true, the stop-loss
\* price of a monitor (one that has read the flag) is at least the entry price.
C9_BreakEvenFloor ==
    \A t \in Monitoring :
        (trade.status # "NONE" /\ trade.meta.break_even_locked
           /\ task[t].meta.break_even_locked)
        => task[t].stop_loss_price >= EntryPrice

\* C10 as stated: a sell that submits a swap started at least 20 seconds after
\* the completion of the previous sell that executed.
C10_SinceCompletion ==
    [][\A t \in Tasks :
         (event'.kind = "swap" /\ event'.task = t /\ prev_exec.end # NoTime)
         => task[t].sell.now - prev_exec.end >= SELL_COOLDOWN_SECONDS]_vars

\* C10 as amended: a sell() call that acquires the lock starts at least 20
\* seconds after the start of the previous call that acquired it, whether
\* that one executed or not, and a call that arrives sooner submits no swap
\* and writes nothing.
C10_SinceStart ==
    [][\A t \in Tasks :
         /\ (event'.kind = "sell_call" /\ event'.task = t)
            => /\ sell_cooldowns # NoTime
                  => now - sell_cooldowns >= SELL_COOLDOWN_SECONDS
               /\ prev_exec.start # NoTime
                  => now - prev_exec.start >= SELL_COOLDOWN_SECONDS
         /\ (task[t].pc = "sell_entry" /\ StepBy(t) /\ prev_exec.start # NoTime
               /\ now - prev_exec.start < SELL_COOLDOWN_SECONDS)
            => /\ task'[t].pc = "after_sell"
               /\ UNCHANGED <<trade, sell_transactions, wallet, pending_sells>>]_vars

\* C10, its case: a second sell acquired the lock less than 20 seconds after
\* the first one completed.
C10_Witness ==
    /\ event.kind = "sell_call"
    /\ prev_exec.end # NoTime
    /\ now - prev_exec.end < SELL_COOLDOWN_SECONDS

\* The pcs of a cycle past the manual override and the zombie kill.
PastOverrides == {"tiers", "tp3_alert", "alerts", "tail", "decay_check", "stop_check"}

C12_RequestKept ==
    [][trade.status = "SELL_REQUEST" => trade'.status \in {"SELL_REQUEST", "CLOSED"}]_vars

\* C13: a cycle that finds the price at or below the stop in force gets its
\* 100% stop-loss sell: the sell() call it makes is not turned away, whatever
\* was sold before.
C13_StopLossSells ==
    [][\A t \in Tasks :
         /\ task[t].pc = "stop_check"
         /\ stop_loss_hit(task[t].current_price, task[t].stop_loss_price)
         /\ StepBy(t)
         => /\ task'[t].pc = "sell_entry"
            /\ task'[t].sell.percentage = 100
            /\ task'[t].sell.reason = <<"STOP LOSS">>
            /\ ~sell_cooldown_active(sell_cooldowns, now)]_vars

\* C14 (scenario A): the monitor whose first sale was TP1 at 1.9x entry (stop
\* raised to 1.4x) and which then met 0.65x entry and left its loop through the
\* stop-loss branch leaves the position CLOSED, with exactly two ledger
\* records whose percentages sum to 100.
C14_ScenarioA ==
    \A t \in Tasks :
        /\ task[t].pc = "cleanup"
        /\ task[t].sell.reason = <<"STOP LOSS">>
        /\ task[t].current_price = 650
        /\ task[t].highest_price = 1900
        /\ task[t].stop_loss_price = (EntryPrice * TP1_SL) \div 10
        /\ Len(sell_transactions) >= 1
        /\ sell_transactions[1] = [percentage_sold |-> TP1_AMOUNT, reason |-> <<"TP (1.8x)">>]
        => /\ trade.status = "CLOSED"
           /\ Len(sell_transactions) = 2
           /\ SumSold(sell_transactions) = 100

\* C15 (scenario B): a cycle of a position held over 6 hours whose price is
\* below the entry price calls sell() once, for 100% with the zombie reason,
\* before any tier logic; the loop ends when the call returns, and unless the
\* swap itself failed the stored status is CLOSED then.
C15_ZombieKill ==
    [][\A t \in Tasks :
         /\ ( /\ task[t].pc = "poll" /\ StepBy(t)
              /\ held_over_6h
              /\ task'[t].current_price < EntryPrice
              /\ ~manual_sell_requested(task[t].status) )
            => /\ task'[t].pc = "sell_entry"
               /\ task'[t].sell.percentage = 100
               /\ task'[t].sell.reason = <<"ZOMBIE KILL">>
         /\ ( /\ task[t].pc = "after_sell" /\ StepBy(t)
              /\ task[t].sell.reason = <<"ZOMBIE KILL">> )
            => /\ task'[t].pc = "cleanup"
               /\ FailedSell(t) \/ trade'.status = "CLOSED"]_vars

C17_AlertOnce ==
    [][\A t \in Tasks :
         (event'.kind = "alerts" /\ event'.task = t /\ event'.to > 0)
         => /\ event'.from = alerts_sent + 1
            /\ event'.to = task[t].current_price \div EntryPrice
            /\ event'.to >= event'.from]_vars

\* The volume-decay rule for a monitor at price p whose best 5-minute count so
\* far is peak_volume_seen, when the count is current_vol now.
DecayRuleHolds(t, current_vol) ==
    /\ ~task[t].meta.volume_decay_triggered
    /\ GainAbove(task[t].current_price, VOLUME_DECAY_GAIN)
    /\ volume_decayed(Max(peak_volume_seen, current_vol), current_vol)

\* C18: in a cycle where a take-profit tier fired and the volume-decay rule
\* holds too, the one sell() call is for the tier fraction plus 25% (capped at
\* 100%) and its reason names both.
C18_TierAndDecayBundled ==
    [][\A t \in Tasks :
         ( /\ event'.kind = "alerts" /\ event'.task = t
           /\ task[t].total_sell_pct > 0
           /\ DecayRuleHolds(t, event'.market_vol) )
         => /\ task'[t].pc = "sell_entry"
            /\ task'[t].sell.percentage =
                   Min(task[t].total_sell_pct + VOLUME_DECAY_AMOUNT, 100)
            /\ task'[t].sell.reason = task[t].sell_reasons \o <<"VOLUME DECAY">>]_vars

\* The tasks that a step created.
Spawned == {t \in Tasks : task[t].pc = "idle" /\ task'[t] = [IdleTask EXCEPT !.pc = "new"]}

\* C19: a call of start_monitor for an address that is in active_monitors
\* changes neither the set nor the tasks; a call for an address that is not
\* adds it to the set and creates exactly one task, touching no other.
C19_StartMonitor ==
    [][event'.kind = "start_monitor" =>
         IF Addr \in active_monitors
         THEN /\ active_monitors' = active_monitors
              /\ task' = task
         ELSE /\ active_monitors' = active_monitors \cup {Addr}
              /\ Cardinality(Spawned) = 1
              /\ \A t \in Tasks \ Spawned : task'[t] = task[t]]_vars

\* start_monitor was called for the address while its monitor was at work and
\* another task could have been created: nothing was.
C19_Witness ==
    /\ event = [kind |-> "start_monitor", spawned |-> FALSE]
    /\ Addr \in active_monitors
    /\ Cardinality(Monitoring) = 1
    /\ \E t \in 1..scn.tasks : task[t].pc = "idle"

\* C20: when resume_monitoring returns, the address of the position, whose
\* stored status is not closed, is in active_monitors and a monitor task
\* exists for it; a call that finds the address there already starts nothing.
C20_ResumeIdempotent ==
    [][event'.kind = "resume_monitoring" =>
         /\ trade'.status \notin {"NONE", "CLOSED"}
         /\ Addr \in active_monitors'
         /\ \E t \in Tasks : Live(t)'
         /\ Cardinality(Spawned) = event'.count
         /\ (Addr \in active_monitors \/ event'.again) =>
              /\ event'.count = 0
              /\ task' = task
              /\ active_monitors' = active_monitors]_vars

\* resume_monitoring was called again before the monitor it had started ran:
\* the second call started nothing.
C20_Witness ==
    /\ event = [kind |-> "resume_monitoring", count |-> 0, again |-> TRUE]
    /\ Addr \in active_monitors
    /\ Cardinality({t \in Tasks : task[t].pc = "new"}) = 1
    /\ \A t \in Tasks : task[t].pc \in {"new", "idle"}
    /\ \E t \in 1..scn.tasks : task[t].pc = "idle"

\* C21: when a monitor task ends, the stored status of its position is CLOSED
\* or the record is gone.
C21_EndsOnlyWhenClosed ==
    event.kind = "monitor_end" => trade.status \in {"CLOSED", "NONE"}

\* C22: an exception raised inside a poll iteration leaves the monitor in
\* active_monitors, and after the backoff the monitor starts another
\* iteration.
C22_ExceptionKeepsMonitoring ==
    [][\A t \in Tasks :
         /\ (event'.kind = "exception" /\ event'.task = t)
            => Addr \in active_monitors'
         /\ (task[t].pc = "backoff" /\ StepBy(t))
            => /\ task'[t].pc = "loop_head"
               /\ Addr \in active_monitors']_vars

\* C23: a sell() call of a real position that returns with no swap executed,
\* for want of a signature or of a balance to sell, has sent the SELL FAILED
\* alert.
C23_FailedSellAlerts ==
    (event.kind = "sell_end" /\ event.result \in {"failed", "no balance"})
    => event.sell_failed_alert

\* C24: once the stored status is CLOSED, no write changes it to another
\* status.
C24_ClosedStaysClosed ==
    [][trade.status = "CLOSED" => trade'.status = "CLOSED"]_vars

\* C25: a take-profit tier flag that is true in the stored metadata is true
\* after every later write of the metadata.
C25_TierFlagsKept ==
    [][trade.status # "NONE" =>
         /\ trade.meta.tp_2x_hit => trade'.meta.tp_2x_hit
         /\ trade.meta.tp3_hit => trade'.meta.tp3_hit
         /\ trade.meta.tp4_hit => trade'.meta.tp4_hit]_vars

\* C26: the highest price a monitor uses for the trailing stop never
\* decreases: not within a monitor, and not when resume_monitoring starts a
\* monitor after the earlier one has ended.
C26_HighestNeverRetreats ==
    [][\A t \in Tasks :
         /\ (t \in Monitoring /\ task'[t].pc # "done")
            => task'[t].highest_price >= task[t].highest_price
         /\ (task[t].pc = "new" /\ StepBy(t) /\ Monitoring = {})
            => task'[t].highest_price >= highest_seen]_vars

\* C27: when a monitor has terminated, its address is not in active_monitors
\* and no per-address attribute is left on the trader: loop counter, cached
\* market data, tier-lock set, last valid price, failure counter.
C27_NothingLeftBehind ==
    event.kind = "monitor_end"
    => /\ Addr \notin active_monitors
       /\ tp_lock = NoAttr
       /\ attrs = {}

\* The calls of buy that executed a swap for a new position, and those that
\* inserted the row.
Bought == {c \in Calls : buy_call[c].swapped /\ ~buy_call[c].is_boost}
Added == {c \in Calls : buy_call[c].added}

\* C28: of all the calls of buy for an address, concurrent or repeated, at
\* most one that is not a boost executes a swap and at most one row exists:
\* no insert ever meets a row, the call that swapped is the one that inserts
\* the row and starts the monitor, and every other call returns without a
\* swap, a row or a monitor (a boost swaps, and adds no row and no monitor).
C28_OneBuyPerAddress ==
    /\ Cardinality(Bought) <= 1
    /\ Cardinality(Added) <= 1
    /\ \A c \in Calls :
         /\ buy_call[c].pc # "raised"
         /\ c \in Bought => (c \in Added \/ buy_call[c].pc = "record")
         /\ c \in Added => (c \in Bought /\ trade # NoTrade)
         /\ buy_call[c].monitor => c \in Added
         /\ (buy_call[c].pc = "returned" /\ c \notin Bought)
            => (~buy_call[c].added /\ ~buy_call[c].monitor)

\* A call has executed its swap and is still inside buy; a later call has
\* come in meanwhile and returned, and has bought nothing.
C28_Witness ==
    \E c \in Calls : \E d \in Calls :
        /\ c < d
        /\ c \in Bought
        /\ buy_call[c].pc = "record"
        /\ buy_call[d].pc = "returned"
        /\ ~buy_call[d].swapped

\* A tier is unfired when its flag, in the meta the cycle read, is not set and
\* its name is not in the lock set; it is due when the price has reached its
\* threshold as well.  The due tiers' count, their fractions summed and their
\* reasons in ascending order of multiplier:
Due(p, factor, hit, name) ==
    /\ p * 10 >= EntryPrice * factor
    /\ ~hit
    /\ (tp_lock = NoAttr \/ name \notin tp_lock)
DueCount(p, meta) ==
    (IF Due(p, TP1_FACTOR, meta.tp_2x_hit, "2x") THEN 1 ELSE 0)
    + (IF Due(p, TP2_FACTOR, meta.tp3_hit, "3x") THEN 1 ELSE 0)
    + (IF Due(p, TP3_FACTOR, meta.tp4_hit, "5x") THEN 1 ELSE 0)
DueSum(p, meta) ==
    (IF Due(p, TP1_FACTOR, meta.tp_2x_hit, "2x") THEN TP1_AMOUNT ELSE 0)
    + (IF Due(p, TP2_FACTOR, meta.tp3_hit, "3x") THEN TP2_AMOUNT ELSE 0)
    + (IF Due(p, TP3_FACTOR, meta.tp4_hit, "5x") THEN TP3_AMOUNT ELSE 0)
DueReasons(p, meta) ==
    (IF Due(p, TP1_FACTOR, meta.tp_2x_hit, "2x") THEN <<"TP (1.8x)">> ELSE <<>>)
    \o (IF Due(p, TP2_FACTOR, meta.tp3_hit, "3x") THEN <<"TP (3.0x)">> ELSE <<>>)
    \o (IF Due(p, TP3_FACTOR, meta.tp4_hit, "5x") THEN <<"TP (5.0x)">> ELSE <<>>)

\* C29, amended: a poll cycle that comes to the take-profit ladder (no manual
\* sell request ended it first) with the price at or above the thresholds of
\* k >= 1 unfired tiers makes exactly one sell() call: the ladder sums those k
\* fractions and lists their reasons in ascending order of multiplier, the
\* call takes the sum capped at 100% and that list, and the cycle ends when
\* the call returns.
C29_OneBundledSell ==
    [][\A t \in Tasks :
         LET r == task[t]
         IN  /\ (r.pc = "tiers" /\ StepBy(t) /\ DueCount(r.current_price, r.meta) >= 1)
                => /\ task'[t].pc \in {"alerts", "tp3_alert"}
                   /\ task'[t].total_sell_pct = DueSum(r.current_price, r.meta)
                   /\ task'[t].sell_reasons = DueReasons(r.current_price, r.meta)
             /\ (r.pc \in {"alerts", "tp3_alert"} /\ StepBy(t) /\ r.total_sell_pct > 0)
                => /\ task'[t].pc = "sell_entry"
                   /\ task'[t].sell.percentage = Min(r.total_sell_pct, 100)
                   /\ task'[t].sell.reason = r.sell_reasons
                   /\ task'[t].sell.after = "bundle"
             /\ (r.pc = "after_sell" /\ StepBy(t) /\ r.sell.after = "bundle")
                => task'[t].pc = "loop_head"]_vars

\* The call of a cycle that found all three tiers due: 50% + 20% + 15%.
C29_Witness ==
    \E t \in Tasks :
        /\ task[t].pc = "sell_entry"
        /\ task[t].sell.after = "bundle"
        /\ task[t].sell.percentage = 85
        /\ task[t].sell.reason = <<"TP (1.8x)", "TP (3.0x)", "TP (5.0x)">>

\* C29 as stated: every poll cycle that finds the price at or above the
\* threshold of an unfired tier comes to the ladder, and so to the bundled
\* call.
C29_EveryCycle ==
    [][\A t \in Tasks :
         (task[t].pc = "poll" /\ StepBy(t)
          /\ DueCount(task'[t].current_price, task[t].meta) >= 1)
         => task'[t].pc = "tiers"]_vars

AllTiersHit(meta) == meta.tp_2x_hit /\ meta.tp3_hit /\ meta.tp4_hit
SomeTierHit(meta) == meta.tp_2x_hit \/ meta.tp3_hit \/ meta.tp4_hit

\* C30: the write that follows a bundled sell that sold (its row is the last
\* of the ledger) stores MOONBAG when the cycle has fired the last of the
\* three tiers (all three flags are set in the meta it writes), and PARTIAL
\* only when some tier has fired and another has not.
C30_MoonbagAfterLastTier ==
    [][\A t \in Tasks :
         (/\ task[t].pc = "after_sell" /\ StepBy(t) /\ task[t].sell.after = "bundle"
          /\ sell_transactions # <<>>
          /\ sell_transactions[Len(sell_transactions)].reason = task[t].sell.reason)
         => /\ AllTiersHit(task[t].meta) => trade'.status = "MOONBAG"
            /\ trade'.status = "PARTIAL"
               => (SomeTierHit(task[t].meta) /\ ~AllTiersHit(task[t].meta))]_vars

\* C31: the peak the volume-decay rule uses in a cycle is the highest count
\* of all the cycles that evaluated the rule, this one included, and a cycle
\* that evaluates the rule (gain above 20%, not fired yet) with that peak
\* above 50 and the count below half of it calls sell for 25% with the
\* volume-decay reason.
C31_VolumeDecay ==
    [][\A t \in Tasks :
         (event'.kind = "decay_check" /\ event'.task = t)
         => /\ event'.peak_vol = Max(peak_volume_seen, event'.current_vol)
            /\ volume_decayed(Max(peak_volume_seen, event'.current_vol),
                              event'.current_vol)
               => /\ task'[t].pc = "sell_entry"
                  /\ task'[t].sell.percentage = VOLUME_DECAY_AMOUNT
                  /\ task'[t].sell.reason = <<"VOLUME DECAY">>]_vars

\* The checks of one poll cycle, in the order of the text of the loop.
Phase(pc) ==
    CASE pc = "poll" -> 1
      [] pc = "tiers" -> 2
      [] pc \in {"tp3_alert", "alerts"} -> 3
      [] pc = "tail" -> 4
      [] pc = "decay_check" -> 5
      [] pc = "stop_check" -> 6
      [] OTHER -> 0

\* C32, amended: the checks of a cycle run in a fixed order.  The ladder is
\* evaluated only in a cycle whose manual-override and zombie-kill checks
\* found nothing; the manual and zombie sells are called before the ladder,
\* the stop-loss sell after it, at the hard stop check; the break-even lock
\* and the trailing stop move the stop before the ladder, the tiers in it,
\* the moonbag trail after it, and no other check moves it.
C32_FixedOrder ==
    [][\A t \in Tasks :
         LET r == task[t]
             called == task'[t].pc = "sell_entry" /\ r.pc # "sell_entry"
         IN  /\ (StepBy(t) /\ Phase(r.pc) > 0 /\ Phase(task'[t].pc) > 0)
                => Phase(task'[t].pc) > Phase(r.pc)
             /\ (event'.kind = "tier_eval" /\ event'.task = t)
                => /\ r.pc = "tiers"
                   /\ r.status # "SELL_REQUEST"
                   /\ ~(held_over_6h /\ r.current_price < EntryPrice)
             /\ (called /\ task'[t].sell.reason
                           \in {<<"Manual Panic Sell">>, <<"ZOMBIE KILL">>})
                => r.pc = "poll"
             /\ (called /\ task'[t].sell.reason = <<"STOP LOSS">>)
                => r.pc = "stop_check"
             /\ (StepBy(t) /\ Phase(r.pc) > 0
                 /\ task'[t].stop_loss_price # r.stop_loss_price)
                => r.pc \in {"poll", "tiers", "tail"}]_vars

\* A cycle has come to the ladder with the 1.8x tier unfired, and its stop is
\* above the entry price already: the trailing stop has moved it.
C32_Witness ==
    \E t \in Tasks :
        /\ task[t].pc = "tiers"
        /\ ~task[t].meta.tp_2x_hit
        /\ task[t].stop_loss_price > EntryPrice

\* C32 as stated: the tiers are evaluated before any trailing-stop adjustment,
\* so the checks that come before the ladder leave the stop where it was, or
\* at the entry price (the break-even lock).
C32_TiersBeforeTrailing ==
    [][\A t \in Tasks :
         (task[t].pc = "poll" /\ StepBy(t) /\ task'[t].pc = "tiers")
         => task'[t].stop_loss_price \in {task[t].stop_loss_price, EntryPrice}]_vars

\* C33: a poll cycle in which no price source answers, after a cycle in which
\* one did, is not skipped and evaluates the exit conditions with the last
\* known-good price, the price a source returned most recently; and a cycle
\* in which a source answers leaves the consecutive-failure counter at 0.
C33_LastKnownGoodPrice ==
    [][\A t \in Tasks :
         (event'.kind = "poll" /\ event'.task = t)
         => /\ (~event'.answered /\ last_good_price > 0)
               => /\ ~event'.skipped
                  /\ event'.price = last_good_price
                  /\ task'[t].current_price = last_good_price
            /\ event'.answered => event'.fails = 0]_vars

\* The break-even lock fires in the step: the cycle sets the flag in its meta.
Ratchets(t) ==
    /\ task[t].pc = "poll"
    /\ ~task[t].meta.break_even_locked
    /\ task'[t].meta.break_even_locked

\* C34: the break-even ratchet happens exactly once per position.  The first
\* cycle that comes to it with a gain of at least 50% (no monitor has held a
\* stop at or above the entry price yet) sets the stop to the entry price or
\* higher and stores break_even_locked; once a monitor has held such a stop
\* no cycle ratchets again.
C34_BreakEvenOnce ==
    [][\A t \in Tasks :
         /\ ( /\ task[t].pc = "poll" /\ task'[t].pc = "tiers"
              /\ GainAtLeast(task'[t].current_price, BREAK_EVEN_GAIN)
              /\ stop_loss_seen < EntryPrice )
            => /\ Ratchets(t)
               /\ task'[t].stop_loss_price >= EntryPrice
               /\ trade'.meta.break_even_locked
         /\ Ratchets(t) => stop_loss_seen < EntryPrice]_vars

\* C35: the monitor's write that follows a sell() that sold (a bundled or a
\* volume-decay sell, after which the loop goes on) loses nothing of what
\* that sell() wrote: the partial exit price and the status are in the store
\* after it as they were before it.
C35_NoLostUpdate ==
    [][\A t \in Tasks :
         ( /\ event.kind = "sell_end" /\ event.task = t /\ event.result = "sold"
           /\ task[t].pc = "after_sell" /\ StepBy(t)
           /\ task[t].sell.after \in {"bundle", "decay"} )
         => /\ trade'.meta.partial_exit_price = trade.meta.partial_exit_price
            /\ trade'.status = trade.status]_vars

\* C36: a take-profit tier flag that the store holds as true has a sell in the
\* ledger whose reason names that tier; a tier whose bundled sell was rejected
\* or failed is not stored as fired (looked at between monitoring cycles).
TierSold(name) ==
    \E i \in DOMAIN sell_transactions :
        \E k \in DOMAIN sell_transactions[i].reason : sell_transactions[i].reason[k] = name

\* No monitor is inside a cycle's ladder, alerts or sell: whatever a cycle
\* stored on the way to its sell has been followed by that sell's outcome.
BetweenCycles == \A t \in Tasks : task[t].pc \in {"idle", "new", "loop_head", "poll"}

C36_FlagHasSell ==
    (trade # NoTrade /\ BetweenCycles) =>
        /\ trade.meta.tp_2x_hit => TierSold("TP (1.8x)")
        /\ trade.meta.tp3_hit => TierSold("TP (3.0x)")
        /\ trade.meta.tp4_hit => TierSold("TP (5.0x)")

\* C37: a position is closed without a swap, by the external-sell detection
\* or by a real sell whose retry loop found the tokens already sold, only
\* when the wallet holds none of the token: a failed balance lookup closes
\* nothing.
ClosesWithoutSwap ==
    /\ real_mode
    /\ trade.status # "CLOSED" /\ trade'.status = "CLOSED"
    /\ \/ event'.kind = "external_close"
       \/ \E t \in Tasks : /\ task[t].pc = "sell_settle" /\ StepBy(t)
                           /\ ~task[t].sell.got_sig

C37_ClosedOnlyWhenEmpty == [][ClosesWithoutSwap => wallet = 0]_vars

\* C38: the percentage_sold that an executed partial sell writes to the ledger
\* is the fraction of the position's original token amount that its swap sold
\* (real mode; the swap landed and took its amount out of the wallet).
PartialSellLogged(t) ==
    /\ real_mode
    /\ task[t].pc = "sell_log" /\ StepBy(t)
    /\ task[t].sell.got_sig /\ task[t].sell.percentage < 100
    /\ Len(sell_transactions') = Len(sell_transactions) + 1
    /\ wallet = task[t].sell.current_balance
                - (task[t].sell.current_balance * task[t].sell.percentage) \div 100

C38_FractionOfOriginal ==
    [][\A t \in Tasks :
         PartialSellLogged(t) =>
            sell_transactions'[Len(sell_transactions')].percentage_sold * EntryTokens
               = 100 * (task[t].sell.current_balance - wallet)]_vars

\* C39: the sell lock never leaks.  The step that ends a sell() call which had
\* acquired the lock (sold, no balance, failed after retries, or an exception
\* of the store) leaves the address out of pending_sells; the address is in
\* pending_sells only while a call is past the lock check; and a call rejected
\* by the cooldown or by the lock leaves pending_sells as it was.
C39_LockNeverLeaks ==
    /\ [](Addr \in pending_sells => \E t \in Tasks : InSell(t))
    /\ [][\A t \in Tasks :
            /\ (InSell(t) /\ ~InSell(t)') => Addr \notin pending_sells'
            /\ (task[t].pc = "sell_entry" /\ StepBy(t) /\ event'.kind = "sell_rejected")
               => pending_sells' = pending_sells]_vars

\* C39, its case: a sell() call that held the lock was ended by an exception
\* of the store, and the lock is free.
C39_Witness ==
    /\ event.kind = "exception" /\ event.at = "update_trade"
    /\ task[event.task].sell.now # NoTime
    /\ Addr \notin pending_sells

====
